---- MODULE Spec2Model ----
(***************************************************************************)
(* edf2cfs: conversion of one EDF recording into a CFS file.               *)
(*                                                                         *)
(* The module follows src/edf2cfs.cpp.  Strings are sequences of           *)
(* one-character strings, files are sequences of bytes (0..255), and the   *)
(* sample buffers are represented by their lengths: no claim checked here  *)
(* depends on a sample value.                                              *)
(***************************************************************************)
EXTENDS Integers, Sequences, FiniteSets, TLC

(***************************************************************************)
(* Bounds of the model                                                     *)
(***************************************************************************)
\* largest number of signals in an EDF header
MaxSignals == 2
\* largest number of fwrite calls of one job that come up short
MaxWriteFaults == 1
\* the longest input list and the largest detected hardware parallelism
MaxFiles == 3
MaxDetected == 2
\* the most epochs of a signal in the feature extraction
MaxEpochs == 2

(***************************************************************************)
(* Program constants                                                       *)
(***************************************************************************)
SAMPLINGRATE == 100
EpochLen == 3000
Window == 128
Hop == 90
epochSize == 32 * 32 * 3
SizeofFloat == 4
UInt16Mod == 65536

Min(a, b) == IF a < b THEN a ELSE b

(***************************************************************************)
(* Strings                                                                 *)
(***************************************************************************)
\* tolower of <cctype> on the characters the model uses
tolower(c) ==
    CASE c = "C" -> "c"
      [] c = "E" -> "e"
      [] c = "L" -> "l"
      [] OTHER -> c

\* strlwr: every character of the string replaced by its lower case
strlwr(str) == [i \in 1..Len(str) |-> tolower(str[i])]

\* std::string::compare(0, n, lit) == 0
ComparePrefix(s, n, lit) == SubSeq(s, 1, Min(n, Len(s))) = lit

\* std::find over a vector<string>: index (from 1) of the first element equal
\* to value, Len(v) + 1 (end()) when there is none
RECURSIVE FindFrom(_, _, _)
FindFrom(v, value, i) ==
    IF i > Len(v) THEN Len(v) + 1
    ELSE IF v[i] = value THEN i
    ELSE FindFrom(v, value, i + 1)

find(v, value) == FindFrom(v, value, 1)

\* string::find_last_of("."): position (from 1) of the last dot, 0 (npos)
\* when the string has none
RECURSIVE LastDotFrom(_, _)
LastDotFrom(s, i) ==
    IF i = 0 THEN 0
    ELSE IF s[i] = "." THEN i
    ELSE LastDotFrom(s, i - 1)

removeExtension(filename) ==
    LET lastdot == LastDotFrom(filename, Len(filename))
    IN  IF lastdot = 0 THEN filename ELSE SubSeq(filename, 1, lastdot - 1)

CfsName(filename) == removeExtension(filename) \o <<".", "c", "f", "s">>

(***************************************************************************)
(* Units                                                                   *)
(***************************************************************************)
\* findMultiplier comparing the whole string
findMultiplierWhole(units) ==
    IF units = <<"n", "V">> THEN 1
    ELSE IF units = <<"u", "V">> THEN 1000
    ELSE IF units = <<"m", "V">> THEN 1000000
    ELSE IF units = <<"V">> THEN 1000000000
    ELSE -1000

\* findMultiplier, in thousandths of a microvolt so that 0.001 is the
\* integer 1; -1 is kept as the negative result -1000
findMultiplier(units) ==
    IF ComparePrefix(units, 2, <<"n", "V">>) THEN 1
    ELSE IF ComparePrefix(units, 2, <<"u", "V">>) THEN 1000
    ELSE IF ComparePrefix(units, 2, <<"m", "V">>) THEN 1000000
    ELSE IF ComparePrefix(units, 1, <<"V">>) THEN 1000000000
    ELSE -1000

(***************************************************************************)
(* Rates                                                                   *)
(***************************************************************************)
\* The sample rate the code computes (lines 421-424) is the double
\*   ((double)smp_in_datarecord / (double)datarecord_duration) * 10000000
\* with datarecord_duration in units of 100 ns.  It is kept as the pair of
\* the samples per record and the record duration in seconds.
Rate(smp, dur) == [smp |-> smp, dur |-> dur]

\* The pairs of SmpPerRecord and Durations for which the quotient smp / dur
\* is a whole number and the IEEE-754 double product falls short of it:
\*   (350.0 / 10000000.0) * 10000000 = 349.99999999999994
\*   (350.0 / 20000000.0) * 10000000 = 174.99999999999997
\* For every other pair of the model the product is the quotient or the
\* double next above it (100.00000000000001 for 100 samples in one second).
RoundedBelow == {<<350, 1>>, <<350, 2>>}

\* (int)f: the double is truncated toward zero
IntPart(f) ==
    IF <<f.smp, f.dur>> \in RoundedBelow
    THEN (f.smp \div f.dur) - 1
    ELSE f.smp \div f.dur

(***************************************************************************)
(* The EDF file, as edflib reports it                                      *)
(***************************************************************************)
C3 == 1
C4 == 2
EL == 3
ER == 4
Roles == {C3, C4, EL, ER}

NA == <<"N", "A">>

\* labels of EDF signals
SignalLabels == {<<"c", "3">>, <<"C", "3">>, <<"e", "l">>, <<"c">>}
\* labels given with -a, -b, -x, -z
ArgLabels == {<<"c", "3">>, <<"C", "3">>, <<"e", "l">>}
\* physical dimension strings
UnitSet ==
    { <<"n", "V">>, <<"u", "V">>, <<"m", "V">>, <<"V">>, <<"u", "V", " ">>,
      <<"m", "A">>, <<"v">>, <<>> }
SmpPerRecord == {100, 200, 201, 349, 350}
Durations == {1, 2}
\* 29 records of 100 samples are less than one epoch; 1966081 records of 100
\* samples are 65536 epochs and 100 samples
RecordCounts == {29, 60, 1966081}

Signal(label, unit, smp) ==
    [label |-> label, physdimension |-> unit, smp_in_datarecord |-> smp]

\* a file edfopen_file_readonly opens: hdr as edflib fills it
Header(signals, dur, records) ==
    [filetype |-> "EDFLIB_FILETYPE_EDF", signalparam |-> signals,
     datarecord_duration |-> dur, datarecords_in_file |-> records]

\* a file edfopen_file_readonly refuses: hdr.filetype holds the error
OpenErrors ==
    { [filetype |-> e, signalparam |-> <<>>, datarecord_duration |-> 1,
       datarecords_in_file |-> 0] :
        e \in {"EDFLIB_NO_SUCH_FILE_OR_DIRECTORY", "EDFLIB_FILE_CONTAINS_FORMAT_ERRORS"} }

Opens(h) == h.filetype = "EDFLIB_FILETYPE_EDF"

\* smp_in_file of signal n: every data record holds smp_in_datarecord samples
smp_in_file(h, n) == h.signalparam[n].smp_in_datarecord * h.datarecords_in_file

DefaultUnit == <<"u", "V">>

SeqsUpTo(S, n) == UNION {[1..k -> S] : k \in 1..n}

\* headers that differ in the number of signals and in their labels
LabelHeaders ==
    { Header([i \in DOMAIN ls |-> Signal(ls[i], DefaultUnit, 100)], 1, 60) :
        ls \in SeqsUpTo(SignalLabels, MaxSignals) }

\* the file shown when the channels are picked by number
InteractiveHeaders ==
    { Header(<<Signal(<<"C", "3">>, DefaultUnit, 100), Signal(<<"e", "l">>, DefaultUnit, 100)>>,
             1, 60) }

\* two signals, c3 and el, that differ in unit
UnitHeaders ==
    { Header(<<Signal(<<"c", "3">>, u[1], 100), Signal(<<"E", "L">>, u[2], 100)>>, 1, 60) :
        u \in [1..2 -> UnitSet] }

\* two signals, c3 and el, that differ in rate, in a file of any length
RateHeaders ==
    { Header(<<Signal(<<"C", "3">>, DefaultUnit, s[1]),
               Signal(<<"e", "l">>, DefaultUnit, s[2])>>, d, r) :
        s \in [1..2 -> SmpPerRecord], d \in Durations, r \in RecordCounts }

\* the role bindings used with UnitHeaders and RateHeaders
RoleMaps ==
    LET a == <<"c", "3">>
        b == <<"e", "l">>
    IN  { <<a, a, b, b>>, <<a, b, a, b>>, <<a, a, a, b>>, <<a, a, a, a>> }

AllNA == [r \in Roles |-> NA]

\* input paths
FileNames == { <<"a", ".", "e">>, <<"d", ".", "x", "/", "a">> }
DefaultFile == <<"a", ".", "e">>

\* the runs of the model: a file, the four labels of the command line
\* (all NA when none was given) and the path of the file
Scenarios ==
    [edf : LabelHeaders \cup OpenErrors, labels : [Roles -> ArgLabels],
     filename : {DefaultFile}]
    \cup [edf : InteractiveHeaders \cup OpenErrors, labels : {AllNA},
          filename : {DefaultFile}]
    \cup [edf : UnitHeaders, labels : {<<<<"c", "3">>, <<"c", "3">>, <<"e", "l">>, <<"e", "l">>>>},
          filename : {DefaultFile}]
    \cup [edf : RateHeaders, labels : RoleMaps, filename : {DefaultFile}]
    \cup [edf : {Header(<<Signal(<<"c", "3">>, DefaultUnit, 100)>>, 1, 60)},
          labels : {[r \in Roles |-> <<"c", "3">>]}, filename : FileNames]

(***************************************************************************)
(* Bytes, SHA-1 and zlib                                                   *)
(***************************************************************************)
\* the n low bytes of v, low byte first
RECURSIVE LowBytes(_, _)
LowBytes(v, n) == IF n = 0 THEN <<>> ELSE <<v % 256>> \o LowBytes(v \div 256, n - 1)

RECURSIVE FromLowBytes(_)
FromLowBytes(b) == IF b = <<>> THEN 0 ELSE b[1] + 256 * FromLowBytes(Tail(b))

Reverse(b) == [i \in 1..Len(b) |-> b[Len(b) + 1 - i]]

\* The float32 image of the payload is represented by its length in bytes:
\* the images of the model differ in length only.
\* CSHA1 Update/Final/GetHash over an image of n bytes: 20 bytes, different
\* for different images
SHA1(n) == LowBytes(n, 4) \o [i \in 1..16 |-> (37 * i + n) % 256]

\* zlib compressBound
compressBound(n) == n + (n \div 4096) + (n \div 16384) + (n \div 33554432) + 13

\* zlib compress over an image of n bytes: a two-byte stream header, the
\* deflated data (here the length of the image) and a four-byte check value
Deflate(n) == <<120, 156>> \o LowBytes(n, 4) \o LowBytes(((n % 65521) * 31 + 1) % 65521, 4)

\* zlib uncompress: the image of a well-formed stream, -1 for any other bytes
Inflate(s) ==
    IF /\ Len(s) = 10
       /\ SubSeq(s, 1, 2) = <<120, 156>>
       /\ FromLowBytes(SubSeq(s, 7, 10)) = ((FromLowBytes(SubSeq(s, 3, 6)) % 65521) * 31 + 1) % 65521
    THEN FromLowBytes(SubSeq(s, 3, 6))
    ELSE -1

(***************************************************************************)
(* State                                                                   *)
(***************************************************************************)
VARIABLES
    LITTLEENDIAN,   \* the byte order of the host the program was built for
    filename,       \* the input path of the job
    overwrite,      \* -o
    edf,            \* the input file, as edflib reports it
    channelLabels,  \* main: the four requested labels
    disk,           \* the file system: one entry for each destination path
    disk0,          \* the file system when the job started (never written)
    pc,             \* the position of the program
    ret,            \* how convertFile ended: "true", "false", or the exception
    streamMsg,      \* the messages of the job
    baseName,       \* convertFile: the destination path
    hdl,            \* the EDF handle of the job: "none", "open" or "closed"
    closes,         \* number of edfclose_file calls of the job
    allLabels,      \* convertFile: the lower-cased labels of the file
    nCh,            \* nC3, nC4, nEL, nER (from 1)
    fCh,            \* fC3, fC4, fEL, fER
    mult,           \* fC3mult, fC4mult, fELmult, fERmult
    totSamples,
    reads,          \* samplesRead of the reads done so far, in order
    lens,           \* n_elem of eegFilt, eoglFilt, eogrFilt
    epochs,
    nEpochs,
    sourceLen,
    SHAdigest,
    ostream,
    faults,         \* number of fwrite calls that came up short
    entered,        \* showHeader: the four channel numbers typed in
    filters,        \* filterEEG, filterEOGL, filterEOGR
    resampled,      \* whether eeg, eogl, eogr went through resample
    n_elem,         \* feature extraction: n_elem of eegFilt, eoglFilt, eogrFilt
    epochCount,     \* feature extraction: epochs (line 593)
    epochI,         \* feature extraction: i
    startJ,         \* feature extraction: j
    payload,        \* feature extraction: what each cell of payload holds
    stores,         \* feature extraction: how often each cell was assigned
    frames,         \* feature extraction: the frames transformed so far
    featpc,         \* feature extraction: the position in the loop
    detected,       \* main: thread::hardware_concurrency()
    concurentThreadsSupported,
    filelist,       \* main: the input files, numbered from 1
    quiet,          \* -q
    saveLog,        \* -l
    mainpc,         \* the position of main
    iBatch,         \* main: i, the index (from 0) of the first file of the batch
    jWorker,        \* main: j
    workers,        \* main: the futures of the batch
    jobpc,          \* the position of the convertFile job of each file
    result,         \* how the job of each file ended
    pl_fft,         \* fftObject.pl_fft, the plan of the global FFTW object
    plAccess,       \* what the job of each file did to pl_fft
    successCounter,
    cout,           \* the console lines of the dispatcher
    lfile,          \* the files whose messages were put into the log
    admitted,       \* the files handed to async, in order
    recorded,       \* the indices of successCounter assigned to, in order
    summary         \* the counts of the final summary

inputs == <<LITTLEENDIAN, filename, overwrite, edf, disk0>>
choice == <<entered>>
resolved == <<allLabels, nCh>>
params == <<fCh, mult, totSamples>>
signal == <<lens, epochs, filters, resampled>>
packed == <<nEpochs, sourceLen, SHAdigest, ostream>>
output == <<disk, faults>>
config == <<detected, filelist, quiet, saveLog>>
loop == <<iBatch, jWorker, workers>>
jobs == <<jobpc, result, plAccess>>
report == <<successCounter, cout, lfile, recorded, summary>>
dispatch ==
    <<config, concurentThreadsSupported, mainpc, loop, jobs, pl_fft, report, admitted>>
convert ==
    <<inputs, choice, channelLabels, pc, ret, streamMsg, baseName, hdl, closes, resolved,
      params, reads, signal, packed, output>>
extract == <<n_elem, epochCount, epochI, startJ, payload, stores, frames, featpc>>
vars == <<convert, dispatch, extract>>

DestPaths == {CfsName(n) : n \in FileNames}

Absent == [exists |-> FALSE, bytes |-> <<>>]
\* a destination file left by an earlier run
OldFile == [exists |-> TRUE, bytes |-> <<79, 76, 68>>]

NoChannels == [r \in Roles |-> 0]

\* convertFile has not been entered
Fresh ==
    /\ ret = "none"
    /\ streamMsg = <<>>
    /\ baseName = <<>>
    /\ hdl = "none"
    /\ closes = 0
    /\ allLabels = <<>>
    /\ nCh = NoChannels
    /\ fCh = [r \in Roles |-> Rate(0, 1)]
    /\ mult = NoChannels
    /\ totSamples = 0
    /\ reads = <<>>
    /\ lens = <<0, 0, 0>>
    /\ epochs = 0
    /\ nEpochs = 0
    /\ sourceLen = 0
    /\ SHAdigest = <<>>
    /\ ostream = <<>>
    /\ faults = 0
    /\ entered = <<>>
    /\ filters = <<>>
    /\ resampled = <<>>

\* the dispatcher of main at rest: Spec follows one call of convertFile
NoDispatch ==
    /\ detected = 0
    /\ concurentThreadsSupported = 0
    /\ filelist = <<>>
    /\ quiet = FALSE
    /\ saveLog = FALSE
    /\ mainpc = "one file"
    /\ iBatch = 0
    /\ jWorker = 0
    /\ workers = <<>>
    /\ jobpc = <<>>
    /\ result = <<>>
    /\ pl_fft = "NULL"
    /\ plAccess = <<>>
    /\ successCounter = <<>>
    /\ cout = <<>>
    /\ lfile = <<>>
    /\ admitted = <<>>
    /\ recorded = <<>>
    /\ summary = <<>>

\* the feature extraction at rest
NoExtract ==
    /\ n_elem = <<0, 0, 0>>
    /\ epochCount = 0
    /\ epochI = 0
    /\ startJ = 0
    /\ payload = <<>>
    /\ stores = <<>>
    /\ frames = <<>>
    /\ featpc = "idle"

\* the state at line 150, after the command line is parsed
Init ==
    /\ \E s \in Scenarios :
        /\ edf = s.edf
        /\ channelLabels = s.labels
        /\ filename = s.filename
        /\ \E present \in BOOLEAN :
            disk = [p \in DestPaths |->
                        IF present /\ p = CfsName(s.filename) THEN OldFile ELSE Absent]
        /\ disk0 = disk
        /\ pc = IF \E r \in Roles : s.labels[r] = NA THEN "showHeader" ELSE "convertFile"
    /\ LITTLEENDIAN \in BOOLEAN
    /\ overwrite \in BOOLEAN
    /\ Fresh
    /\ NoDispatch
    /\ NoExtract

(***************************************************************************)
(* main: interactive choice of the channels                                *)
(***************************************************************************)
Nmax == Len(edf.signalparam)

\* what hdr.signalparam[Nmax].label, the entry after the last signal, may hold
UnusedLabels == {<<>>, <<"E", "L">>}

\* showHeader (line 153), called when a label of the command line is missing
ShowHeader ==
    /\ pc = "showHeader"
    /\ IF ~Opens(edf)
       THEN /\ pc' = "exit"
            /\ UNCHANGED <<channelLabels, entered>>
       ELSE \E n \in [Roles -> 0..(Nmax + 2)] :
              LET m == [r \in Roles |-> n[r] - 1]
              IN  /\ entered' = n
                  /\ IF \E r \in Roles : m[r] > Nmax \/ m[r] < 0
                     THEN /\ pc' = "exit"
                          /\ UNCHANGED channelLabels
                     ELSE /\ \E u \in UnusedLabels :
                               channelLabels' =
                                   [r \in Roles |->
                                       strlwr(IF m[r] < Nmax
                                              THEN edf.signalparam[m[r] + 1].label
                                              ELSE u)]
                          /\ pc' = "convertFile"
    /\ UNCHANGED <<extract, dispatch, inputs, ret, streamMsg, baseName, hdl, closes, resolved, params,
                   reads, signal, packed, output>>

(***************************************************************************)
(* convertFile                                                             *)
(***************************************************************************)
Fail(msg) ==
    /\ streamMsg' = Append(streamMsg, msg)
    /\ ret' = "false"
    /\ pc' = "returned"

\* fs::exists
exists(d, path) == d[path].exists

\* lines 326-327
AlreadyConvertedNoCheck(ow, d, path) == FALSE

AlreadyConverted(ow, d, path) == ~ow /\ exists(d, path)

\* lines 319-332: the destination path and the overwrite check
Begin ==
    /\ pc = "convertFile"
    /\ baseName' = CfsName(filename)
    /\ IF AlreadyConverted(overwrite, disk, CfsName(filename))
       THEN /\ streamMsg' = <<<<"Filename">>, <<"ERROR: File already converted.">>>>
            /\ ret' = "false"
            /\ pc' = "returned"
       ELSE /\ streamMsg' = <<<<"Filename">>>>
            /\ pc' = "open"
            /\ UNCHANGED ret
    /\ UNCHANGED <<extract, dispatch, choice, inputs, channelLabels, hdl, closes, resolved, params, reads,
                   signal, packed, output>>

\* lines 340-364: edfopen_file_readonly
OpenEdf ==
    /\ pc = "open"
    /\ IF ~Opens(edf)
       THEN /\ Fail(<<"ERROR: open", edf.filetype>>)
            /\ UNCHANGED hdl
       ELSE /\ hdl' = "open"
            /\ pc' = "labels"
            /\ UNCHANGED <<ret, streamMsg>>
    /\ UNCHANGED <<extract, dispatch, choice, inputs, channelLabels, baseName, closes, resolved, params, reads,
                   signal, packed, output>>

RoleName(r) ==
    CASE r = C3 -> "C3" [] r = C4 -> "C4" [] r = EL -> "EL" [] OTHER -> "ER"

\* lines 366-368: the labels of the file, lower-cased
LowerLabels(h) == [i \in 1..Len(h.signalparam) |-> strlwr(h.signalparam[i].label)]

\* lines 373, 385, 397, 409: the signal of role r, Len(labels) + 1 for none
Resolve(labels, requested, r) == find(labels, requested[r])

\* lines 366-418: the four roles are resolved in the order C3, C4, EL, ER
ResolveLabels ==
    /\ pc = "labels"
    /\ LET labels == LowerLabels(edf)
           it == [r \in Roles |-> Resolve(labels, channelLabels, r)]
           missing == {r \in Roles : it[r] = Len(labels) + 1}
       IN  /\ allLabels' = labels
           /\ IF missing # {}
              THEN LET first == CHOOSE r \in missing : \A q \in missing : r <= q
                   IN  /\ Fail(<<"Error: label not found!", RoleName(first)>>)
                       /\ hdl' = "closed"
                       /\ closes' = closes + 1
                       /\ nCh' = [r \in Roles |-> IF r < first THEN it[r] ELSE 0]
              ELSE /\ nCh' = it
                   /\ pc' = "params"
                   /\ UNCHANGED <<ret, streamMsg, hdl, closes>>
    /\ UNCHANGED <<extract, dispatch, choice, inputs, channelLabels, baseName, params, reads, signal, packed,
                   output>>

\* lines 421-424
SampleRate(h, n) == Rate(h.signalparam[n].smp_in_datarecord, h.datarecord_duration)

\* line 438
UnitsValid(m) == \A r \in Roles : m[r] >= 0

\* line 446
RatesAgree(f) == IntPart(f[C3]) = IntPart(f[C4])

\* lines 420-463: sample rates, units, the two checks, the buffers; the
\* allocation of the four buffers of totSamples doubles can throw
CheckParams ==
    /\ pc = "params"
    /\ LET f == [r \in Roles |-> SampleRate(edf, nCh[r])]
           m == [r \in Roles |-> findMultiplier(edf.signalparam[nCh[r]].physdimension)]
       IN  /\ fCh' = f
           /\ mult' = m
           /\ IF ~UnitsValid(m)
              THEN /\ Fail(<<"ERROR: Invalid measurement unit.">>)
                   /\ hdl' = "closed"
                   /\ closes' = closes + 1
                   /\ UNCHANGED totSamples
              ELSE IF ~RatesAgree(f)
              THEN /\ Fail(<<"Error: C3 and C4 sampling rates must be same.">>)
                   /\ hdl' = "closed"
                   /\ closes' = closes + 1
                   /\ UNCHANGED totSamples
              ELSE /\ totSamples' = smp_in_file(edf, nCh[C3])
                   /\ UNCHANGED <<streamMsg, hdl, closes>>
                   /\ \/ /\ pc' = "read"
                         /\ UNCHANGED ret
                      \/ /\ pc' = "returned"
                         /\ ret' = "std::bad_alloc"
    /\ UNCHANGED <<extract, dispatch, choice, inputs, channelLabels, baseName, resolved, reads, signal, packed,
                   output>>

\* edfread_physical_samples after edfrewind: the samples the signal holds, at
\* most n of them
SamplesRead(h, ch, n) == Min(n, smp_in_file(h, ch))

\* lines 465-509: the next of the four reads; edflib reports a failed read
\* by -1
ReadChannel ==
    /\ pc = "read"
    /\ LET r == Len(reads) + 1
       IN  \/ /\ reads' = Append(reads, -1)
              /\ streamMsg' = streamMsg \o <<<<"channel", RoleName(r)>>,
                                              <<"ERROR: reading channel data.", RoleName(r)>>>>
              /\ ret' = "false"
              /\ pc' = "returned"
              /\ hdl' = "closed"
              /\ closes' = closes + 1
           \/ /\ reads' = Append(reads, SamplesRead(edf, nCh[r], totSamples))
              /\ streamMsg' = Append(streamMsg, <<"channel", RoleName(r)>>)
              /\ pc' = IF r = ER THEN "close" ELSE "read"
              /\ UNCHANGED <<ret, hdl, closes>>
    /\ UNCHANGED <<extract, dispatch, choice, inputs, channelLabels, baseName, resolved, params, signal, packed,
                   output>>

\* the reads done and the handle left open
CloseEdfSkipped ==
    /\ pc = "close"
    /\ pc' = "filter"
    /\ UNCHANGED <<extract, dispatch, choice, inputs, channelLabels, ret, streamMsg, baseName, hdl,
                   closes, resolved, params, reads, signal, packed, output>>

\* line 512
CloseEdf ==
    /\ pc = "close"
    /\ hdl' = "closed"
    /\ closes' = closes + 1
    /\ pc' = "filter"
    /\ UNCHANGED <<extract, dispatch, choice, inputs, channelLabels, ret, streamMsg, baseName, resolved, params,
                   reads, signal, packed, output>>

\* resample(SAMPLINGRATE, fs, input, output): the length of the output for an
\* input of n samples, round(n * SAMPLINGRATE / fs), computed on the quotient
\* and the remainder of n by fs
ResampleLen(n, fs) ==
    (n \div fs) * SAMPLINGRATE + (2 * (n % fs) * SAMPLINGRATE + fs) \div (2 * fs)

\* a signal is resampled unless its rate is SAMPLINGRATE itself
ResamplesUnlessEqual(f) == f.smp # SAMPLINGRATE * f.dur

\* lines 554, 565, 575: (int)f != SAMPLINGRATE
Resamples(f) == IntPart(f) # SAMPLINGRATE

FILTERORDER == 50

\* a cut-off frequency of t tenths of a hertz, doubled and divided by the rate f
Cutoff(t, f) == [tenths |-> t, rate |-> f]

\* lines 717-724: the N + 1 coefficients are determined by N, fl and fh
firBandPass(N, fl, fh) == [N |-> N, fl |-> fl, fh |-> fh]

\* line 532, fER == fEL: two rates of one file are the same double exactly
\* when the signals have the same number of samples in a record
SameRate(f, g) == f = g

\* lines 528-535: the three filters
Filters(f) ==
    <<firBandPass(FILTERORDER, Cutoff(3, f[C3]), Cutoff(450, f[C3])),
      firBandPass(FILTERORDER, Cutoff(3, f[EL]), Cutoff(120, f[EL])),
      IF SameRate(f[ER], f[EL])
      THEN firBandPass(FILTERORDER, Cutoff(3, f[ER]), Cutoff(120, f[ER]))
      ELSE firBandPass(FILTERORDER, Cutoff(3, f[EL]), Cutoff(120, f[EL]))>>

\* the channel whose rate decides for eeg, eogl, eogr
RateRole(c) == IF c = 1 THEN C3 ELSE c + 1

\* lines 553-583: a signal is resampled when the integer part of its rate is
\* not SAMPLINGRATE
FiltLen(n, f) == IF Resamples(f) THEN ResampleLen(n, IntPart(f)) ELSE n

\* line 601: the frame starts of an epoch
FrameStarts == {j \in 0..(EpochLen - Window - 1) : j % Hop = 0}

\* lines 606-612: the last sample a frame of epoch i reads (from 0)
FrameEnd(i, j) == i * EpochLen + j + Window - 1

\* every subvec of lines 606-612 lies inside a signal of n samples
FramesInside(e, n) == \A i \in {e - 1} \cap Nat : \A j \in FrameStarts : FrameEnd(i, j) < n

\* lines 514-633: filter, resample, spectrogram, conversion to float.  The
\* three filtered signals have totSamples samples.  A frame outside its signal
\* makes Armadillo throw std::logic_error; a build with ARMA_NO_DEBUG reads
\* past the signal and goes on.
Process ==
    /\ pc = "filter"
    /\ LET n == [c \in 1..3 |-> FiltLen(totSamples, fCh[RateRole(c)])]
           e == n[1] \div EpochLen
       IN  /\ lens' = n
           /\ epochs' = e
           /\ filters' = Filters(fCh)
           /\ resampled' = [c \in 1..3 |-> Resamples(fCh[RateRole(c)])]
           /\ IF \A c \in 1..3 : FramesInside(e, n[c])
              THEN /\ pc' = "hash"
                   /\ UNCHANGED ret
              ELSE \/ /\ pc' = "returned"
                      /\ ret' = "std::logic_error"
                   \/ /\ pc' = "hash"
                      /\ UNCHANGED ret
    /\ UNCHANGED <<extract, dispatch, choice, inputs, channelLabels, streamMsg, baseName, hdl, closes, resolved,
                   params, reads, packed, output>>

\* line 642: conversion of int to uint16_t
ToUInt16(v) == v % UInt16Mod

\* line 632
SourceLen(e) == e * epochSize * SizeofFloat

\* lines 632-656: the length of the image, the header fields, SHA-1
Hash ==
    /\ pc = "hash"
    /\ sourceLen' = SourceLen(epochs)
    /\ nEpochs' = ToUInt16(epochs)
    /\ \/ /\ SHAdigest' = SHA1(SourceLen(epochs))
          /\ pc' = "compress"
          /\ UNCHANGED <<ret, streamMsg>>
       \/ /\ Fail(<<"ERROR: Problem in conversion! SHA1 Failed...">>)
          /\ UNCHANGED SHAdigest
    /\ UNCHANGED <<extract, dispatch, choice, inputs, channelLabels, baseName, hdl, closes, resolved, params,
                   reads, signal, ostream, output>>

\* Compress with the destination opened before the compression
CompressAfterFopen ==
    /\ pc = "compress"
    /\ disk' = [disk EXCEPT ![baseName] = [exists |-> TRUE, bytes |-> <<>>]]
    /\ \/ /\ ostream' = Deflate(sourceLen)
          /\ pc' = "fopen"
          /\ UNCHANGED <<ret, streamMsg>>
       \/ /\ Fail(<<"ERROR: Not enough memory for compression!">>)
          /\ UNCHANGED ostream
    /\ UNCHANGED <<extract, dispatch, choice, inputs, channelLabels, baseName, hdl, closes, resolved, params,
                   reads, signal, nEpochs, sourceLen, SHAdigest, faults>>

\* lines 658-673: compress into a buffer of compressBound(sourceLen) bytes
Compress ==
    /\ pc = "compress"
    /\ \/ /\ Len(Deflate(sourceLen)) <= compressBound(sourceLen)
          /\ ostream' = Deflate(sourceLen)
          /\ pc' = "fopen"
          /\ UNCHANGED <<ret, streamMsg>>
       \/ /\ Len(Deflate(sourceLen)) > compressBound(sourceLen)
          /\ Fail(<<"ERROR: Buffer was too small!">>)
          /\ UNCHANGED ostream
       \/ /\ Fail(<<"ERROR: Not enough memory for compression!">>)
          /\ UNCHANGED ostream
    /\ UNCHANGED <<extract, dispatch, choice, inputs, channelLabels, baseName, hdl, closes, resolved, params,
                   reads, signal, nEpochs, sourceLen, SHAdigest, output>>

\* lines 675-680: fopen(baseName, "wb") creates the file or empties it
OpenOutput ==
    /\ pc = "fopen"
    /\ \/ /\ disk' = [disk EXCEPT ![baseName] = [exists |-> TRUE, bytes |-> <<>>]]
          /\ pc' = "write"
          /\ UNCHANGED <<ret, streamMsg>>
       \/ /\ Fail(<<"ERROR: Opening">>)
          /\ UNCHANGED disk
    /\ UNCHANGED <<extract, dispatch, choice, inputs, channelLabels, baseName, hdl, closes, resolved, params,
                   reads, signal, packed, faults>>

\* the bytes of a uint16_t in the memory of the host
Mem16(v) == IF LITTLEENDIAN THEN LowBytes(v, 2) ELSE Reverse(LowBytes(v, 2))

\* writeByteReversed: the inner loop runs while j < 0
RECURSIVE ReversedWord(_, _, _)
ReversedWord(stream, offset, j) ==
    IF j < 0
    THEN <<stream[offset + j + 1]>> \o ReversedWord(stream, offset, j - 1)
    ELSE <<>>

RECURSIVE ReversedFrom(_, _, _, _)
ReversedFrom(stream, byteSize, streamSize, offset) ==
    IF offset < streamSize
    THEN ReversedWord(stream, offset, byteSize - 1)
            \o ReversedFrom(stream, byteSize, streamSize, offset + byteSize)
    ELSE <<>>

\* the bytes writeByteReversed hands to fwrite, in order
writeByteReversed(stream, byteSize, streamSize) ==
    ReversedFrom(stream, byteSize, streamSize, 0)

\* lines 688-703: fwrite on a little-endian host, writeByteReversed otherwise
HostOrdered(stream, byteSize) ==
    IF LITTLEENDIAN THEN stream ELSE writeByteReversed(stream, byteSize, Len(stream))

NumWrites == 10

\* lines 683-703: the bytes of the w-th write
WriteBytes(w) ==
    CASE w = 1 -> <<67, 70, 83>>
      [] w = 2 -> <<1>>
      [] w = 3 -> <<32>>
      [] w = 4 -> <<32>>
      [] w = 5 -> <<3>>
      [] w = 6 -> HostOrdered(Mem16(nEpochs), 2)
      [] w = 7 -> <<1>>
      [] w = 8 -> <<1>>
      [] w = 9 -> HostOrdered(SHAdigest, 20)
      [] OTHER -> HostOrdered(ostream, 4)

\* the bytes fwrite puts into the file when asked for b: all of them, or the
\* first half when the write comes up short
Fwrite(b, short) == IF short THEN SubSeq(b, 1, Len(b) \div 2) ELSE b

\* the bytes the writes w..NumWrites put into the file, those of F short
RECURSIVE Written(_, _)
Written(w, F) ==
    IF w > NumWrites THEN <<>>
    ELSE Fwrite(WriteBytes(w), w \in F) \o Written(w + 1, F)

\* the writes that can come up short: those that write a byte
Writes == {w \in 1..NumWrites : WriteBytes(w) # <<>>}

\* lines 683-710: the ten writes, of which no result is looked at, fclose
\* and the return of true
WriteOutput ==
    /\ pc = "write"
    /\ \E F \in SUBSET Writes :
          /\ Cardinality(F) <= MaxWriteFaults
          /\ disk' = [disk EXCEPT ![baseName].bytes = @ \o Written(1, F)]
          /\ faults' = Cardinality(F)
    /\ streamMsg' = Append(streamMsg, <<"</p>">>)
    /\ ret' = "true"
    /\ pc' = "returned"
    /\ UNCHANGED <<extract, dispatch, choice, inputs, channelLabels, baseName, hdl, closes, resolved, params,
                   reads, signal, packed>>

Next ==
    \/ ShowHeader
    \/ Begin
    \/ OpenEdf
    \/ ResolveLabels
    \/ CheckParams
    \/ ReadChannel
    \/ CloseEdf
    \/ Process
    \/ Hash
    \/ Compress
    \/ OpenOutput
    \/ WriteOutput

Spec == Init /\ [][Next]_vars

(***************************************************************************)
(* main: the dispatcher (lines 77-81 and 195-241)                          *)
(***************************************************************************)
\* A job is the call of convertFile for one file.  Of a job the dispatcher
\* model keeps how far it is, what it did to the plan of the global FFTW
\* object and how it ended.
Files == 1..Len(filelist)

\* exit() was called, or an exception left main and std::terminate ran
Ended == mainpc \in {"exited", "terminated"}

\* a job that was started and has not returned or thrown
Running(k) == jobpc[k] \notin {"none", "done"}

\* line 80 without the replacement of 0
ThreadsAsDetected(d) == d

\* lines 78-81
Threads(d) == IF d = 0 THEN 2 ELSE d

\* the input lists of n files: each file is named by its destination path;
\* all paths differ, or all files have one stem
FileLists(n) == {[k \in 1..n |-> k], [k \in 1..n |-> 1]}

\* the jobs that have created the destination d
Creators(d) == {k \in Files : filelist[k] = d /\ result[k] = "true"}

\* the state at line 77: the command line is parsed, filelist is not empty,
\* no destination exists
InitMain ==
    /\ LITTLEENDIAN = TRUE
    /\ overwrite \in BOOLEAN
    /\ filename = DefaultFile
    /\ edf = Header(<<Signal(<<"c", "3">>, DefaultUnit, 100)>>, 1, 60)
    /\ channelLabels = [r \in Roles |-> <<"c", "3">>]
    /\ disk = [p \in DestPaths |-> Absent]
    /\ disk0 = disk
    /\ pc = "convertFile"
    /\ Fresh
    /\ detected \in 0..MaxDetected
    /\ concurentThreadsSupported = 0
    /\ \E n \in 1..MaxFiles :
        /\ filelist \in FileLists(n)
        /\ jobpc = [k \in 1..n |-> "none"]
        /\ result = [k \in 1..n |-> "none"]
        /\ plAccess = [k \in 1..n |-> "none"]
    /\ quiet \in BOOLEAN
    /\ saveLog \in BOOLEAN
    /\ mainpc = "start"
    /\ iBatch = 0
    /\ jWorker = 0
    /\ workers = <<>>
    /\ pl_fft = "NULL"
    /\ successCounter = <<>>
    /\ cout = <<>>
    /\ lfile = <<>>
    /\ admitted = <<>>
    /\ recorded = <<>>
    /\ summary = <<>>
    /\ NoExtract

\* lines 78-81 and 195-199: the degree of parallelism, successCounter, i = 0
Detect ==
    /\ mainpc = "start"
    /\ concurentThreadsSupported' = Threads(detected)
    /\ successCounter' = [k \in Files |-> 0]
    /\ iBatch' = 0
    /\ jWorker' = 0
    /\ workers' = <<>>
    /\ mainpc' = "launch"
    /\ UNCHANGED <<extract, convert, config, jobs, pl_fft, cout, lfile, recorded, summary,
                   admitted>>

\* std::async without a launch policy: the job runs in a thread of its own,
\* or is deferred until get()
LaunchPolicies == {"async", "deferred"}

\* the launch loop without the limit of line 206
MoreToLaunchNoLimit(i, j) == i + j + 1 < Len(filelist)

\* lines 206-208: after worker j another job is launched in the batch
MoreToLaunch(i, j) == j + 1 < concurentThreadsSupported /\ i + j + 1 < Len(filelist)

\* lines 206-213: the next job of the batch is handed to async; the batch
\* has a first job because i is below filelist.size()
Launch ==
    /\ mainpc = "launch"
    /\ LET k == iBatch + jWorker + 1
       IN  /\ \E policy \in LaunchPolicies :
                /\ workers' = Append(workers, [file |-> k, policy |-> policy])
                /\ jobpc' = IF policy = "async" THEN [jobpc EXCEPT ![k] = "started"]
                            ELSE jobpc
           /\ admitted' = Append(admitted, k)
           /\ IF MoreToLaunch(iBatch, jWorker)
              THEN /\ jWorker' = jWorker + 1
                   /\ UNCHANGED mainpc
              ELSE /\ jWorker' = 0
                   /\ mainpc' = "wait"
    /\ UNCHANGED <<extract, convert, config, concurentThreadsSupported, iBatch, result, plAccess,
                   pl_fft, report>>

\* line 217: get() on a deferred future runs the job in the calling thread
RunDeferred ==
    /\ mainpc = "wait"
    /\ workers[jWorker + 1].policy = "deferred"
    /\ jobpc[workers[jWorker + 1].file] = "none"
    /\ jobpc' = [jobpc EXCEPT ![workers[jWorker + 1].file] = "started"]
    /\ UNCHANGED <<extract, convert, config, concurentThreadsSupported, mainpc, loop, result,
                   plAccess, pl_fft, report, admitted>>

\* what a job can throw: an allocation failure, an Armadillo bounds error
Exceptions == {"std::bad_alloc", "std::logic_error"}

\* get() that does not wait for the job
ReadyAtOnce(w) == TRUE

\* line 217: get() returns when the job has returned or thrown
Ready(w) == jobpc[w.file] = "done"

\* the index of successCounter of worker j, taken inside the batch
SlotInBatch(i, j) == j + 1

\* line 217: successCounter(i + j), as a position from 1
Slot(i, j) == i + j + 1

\* lines 218-229: the console line of a file
ConsoleLines(k, ok) ==
    IF ~ok THEN <<<<"ERROR: Filename", k>>>>
    ELSE IF ~quiet THEN <<<<"processed successfully", k>>>>
    ELSE <<>>

\* lines 216-235: get() of the next worker; an exception of the job leaves
\* get() and main, which catches nothing; otherwise the outcome is recorded
\* and reported, and after the last worker the next batch begins
Collect ==
    /\ mainpc = "wait"
    /\ Ready(workers[jWorker + 1])
    /\ LET k == workers[jWorker + 1].file
           at == Slot(iBatch, jWorker)
           ok == result[k] = "true"
       IN  IF result[k] \in Exceptions
           THEN /\ mainpc' = "terminated"
                /\ UNCHANGED <<loop, report>>
           ELSE /\ successCounter' = [successCounter EXCEPT ![at] = IF ok THEN 1 ELSE 0]
                /\ recorded' = Append(recorded, at)
                /\ cout' = cout \o ConsoleLines(iBatch + jWorker + 1, ok)
                /\ lfile' = IF saveLog THEN Append(lfile, k) ELSE lfile
                /\ UNCHANGED summary
                /\ IF jWorker + 1 < Len(workers)
                   THEN /\ jWorker' = jWorker + 1
                        /\ UNCHANGED <<mainpc, iBatch, workers>>
                   ELSE /\ iBatch' = iBatch + concurentThreadsSupported
                        /\ jWorker' = 0
                        /\ workers' = <<>>
                        /\ mainpc' = IF iBatch + concurentThreadsSupported < Len(filelist)
                                     THEN "launch" ELSE "summary"
    /\ UNCHANGED <<extract, convert, config, concurentThreadsSupported, jobs, pl_fft, admitted>>

RECURSIVE accu(_)
accu(v) == IF v = <<>> THEN 0 ELSE v[1] + accu(Tail(v))

\* lines 237-247: the summary
Summary ==
    /\ mainpc = "summary"
    /\ summary' = <<[processed |-> Len(filelist),
                     converted |-> accu(successCounter),
                     failed |-> Len(filelist) - accu(successCounter)]>>
    /\ mainpc' = "done"
    /\ UNCHANGED <<extract, convert, config, concurentThreadsSupported, loop, jobs, pl_fft,
                   successCounter, cout, lfile, recorded, admitted>>

Finish(k, how) ==
    /\ jobpc' = [jobpc EXCEPT ![k] = "done"]
    /\ result' = [result EXCEPT ![k] = how]

\* convertFile, lines 317-593: the job returns false (file already converted,
\* open, label, unit, rate or read error), an allocation throws, or the
\* signals are ready for the features; with overwrite off a job whose
\* destination exists can only return false (lines 326-331)
JobPrepare(k) ==
    /\ ~Ended
    /\ jobpc[k] = "started"
    /\ \/ \E how \in {"false", "std::bad_alloc"} :
             /\ AlreadyConverted(overwrite, [d \in {filelist[k]} |-> [exists |-> Creators(d) # {}]],
                                 filelist[k]) => how = "false"
             /\ Finish(k, how)
       \/ /\ ~AlreadyConverted(overwrite, [d \in {filelist[k]} |-> [exists |-> Creators(d) # {}]],
                                filelist[k])
          /\ jobpc' = [jobpc EXCEPT ![k] = "features"]
          /\ UNCHANGED result
    /\ UNCHANGED <<extract, convert, config, concurentThreadsSupported, mainpc, loop, plAccess,
                   pl_fft, report, admitted>>

\* the strongest of two uses of an object
Stronger(a, b) == IF "write" \in {a, b} THEN "write" ELSE IF "read" \in {a, b} THEN "read" ELSE "none"

\* convertFile, lines 600-613 and FFTW::fft, lines 137 and 146: with no epoch
\* there is no transform; the first transform tests pl_fft and, with a plan,
\* executes it; a frame outside its signal throws
JobFeatures(k) ==
    /\ ~Ended
    /\ jobpc[k] = "features"
    /\ \/ /\ jobpc' = [jobpc EXCEPT ![k] = "pack"]
          /\ UNCHANGED <<result, plAccess>>
       \/ /\ Finish(k, "std::logic_error")
          /\ UNCHANGED plAccess
       \/ /\ plAccess' = [plAccess EXCEPT ![k] = Stronger(@, "read")]
          /\ jobpc' = [jobpc EXCEPT ![k] = IF pl_fft = "NULL" THEN "plan" ELSE "pack"]
          /\ UNCHANGED result
    /\ UNCHANGED <<extract, convert, config, concurentThreadsSupported, mainpc, loop, pl_fft,
                   report, admitted>>

\* FFTW::fft, lines 139-146: the plan is made and stored in pl_fft; without
\* a plan err_handler (base.h, lines 131-136) calls exit
JobPlan(k) ==
    /\ ~Ended
    /\ jobpc[k] = "plan"
    /\ plAccess' = [plAccess EXCEPT ![k] = "write"]
    /\ \/ /\ pl_fft' = "plan"
          /\ jobpc' = [jobpc EXCEPT ![k] = "pack"]
          /\ UNCHANGED mainpc
       \/ /\ pl_fft' = "NULL"
          /\ mainpc' = "exited"
          /\ UNCHANGED jobpc
    /\ UNCHANGED <<extract, convert, config, concurentThreadsSupported, loop, result, report,
                   admitted>>

\* convertFile, lines 596-710: the rest of the transforms, the hash, the
\* compression and the output; the job returns true or false, or an
\* allocation or a frame outside its signal throws.  The job that returns
\* true has created its destination and written it (lines 675-705).
JobFinish(k) ==
    /\ ~Ended
    /\ jobpc[k] = "pack"
    /\ \E how \in {"true", "false"} \cup Exceptions : Finish(k, how)
    /\ UNCHANGED <<extract, convert, config, concurentThreadsSupported, mainpc, loop, plAccess,
                   pl_fft, report, admitted>>

Prepare == \E k \in Files : JobPrepare(k)
Features == \E k \in Files : JobFeatures(k)
Plan == \E k \in Files : JobPlan(k)
Return == \E k \in Files : JobFinish(k)

NextMain ==
    \/ Detect
    \/ Launch
    \/ RunDeferred
    \/ Collect
    \/ Summary
    \/ Prepare
    \/ Features
    \/ Plan
    \/ Return

SpecMain == InitMain /\ [][NextMain]_vars

\* the steps of main and of the job of file k
MainStep == Detect \/ Launch \/ RunDeferred \/ Collect \/ Summary
JobStep(k) ==
    k \in Files /\ (JobPrepare(k) \/ JobFeatures(k) \/ JobPlan(k) \/ JobFinish(k))

\* main and every job go on as long as they can: each is a thread that the
\* scheduler runs, and every job terminates
SpecMainFair ==
    SpecMain /\ WF_vars(MainStep) /\ \A k \in 1..MaxFiles : WF_vars(JobStep(k))

(***************************************************************************)
(* convertFile: the feature extraction (lines 593-621)                     *)
(***************************************************************************)
\* the lengths of the EEG: whole epochs, and whole epochs and 2999 samples
EegLens == {e * EpochLen + r : e \in 0..MaxEpochs, r \in {0, EpochLen - 1}}

\* the cells of a payload of e epochs, from 0
Cells(e) == 0..(e * epochSize - 1)

\* the state at line 598: the signals are filtered and resampled, the payload
\* is filled with zeros
InitFeatures ==
    /\ LITTLEENDIAN = TRUE
    /\ overwrite = FALSE
    /\ filename = DefaultFile
    /\ edf = Header(<<Signal(<<"c", "3">>, DefaultUnit, 100)>>, 1, 60)
    /\ channelLabels = [r \in Roles |-> <<"c", "3">>]
    /\ disk = [p \in DestPaths |-> Absent]
    /\ disk0 = disk
    /\ pc = "filter"
    /\ Fresh
    /\ NoDispatch
    /\ \E n \in EegLens : \E l \in {n, n \div 2} : n_elem = <<n, l, l>>
    /\ epochCount = n_elem[1] \div EpochLen
    /\ epochI = 0
    /\ startJ = 0
    /\ payload = [x \in Cells(epochCount) |-> <<>>]
    /\ stores = [x \in Cells(epochCount) |-> 0]
    /\ frames = <<>>
    /\ featpc = "loop"

\* the inner loop running to the end of the epoch
InnerLoopToEpochEnd(j) == j < EpochLen

\* line 601: j < 3000 - 128
InnerLoopGoesOn(j) == j < EpochLen - Window

\* the cell with time and channel exchanged
CellOfTimeMajor(i, c, t, f) == i * epochSize + t * 32 * 3 + c * 32 + f

\* lines 615-617: the cell of epoch i, channel c, time t, frequency f
CellOf(i, c, t, f) == i * epochSize + c * 32 * 32 + t * 32 + f

\* lines 606, 609, 612: subvec(i * 3000 + j, i * 3000 + j + 128 - 1) of a
\* signal of n samples is inside it
SubvecInside(i, j, n) == i * EpochLen + j + Window - 1 < n

\* lines 601-618: one frame of the epoch: three windows of 128 samples, three
\* transforms, 32 magnitudes of each stored.  A subvec outside its vector
\* throws std::logic_error; a build with ARMA_NO_DEBUG goes on.
ExtractFrame ==
    /\ featpc = "loop"
    /\ epochI < epochCount
    /\ InnerLoopGoesOn(startJ)
    /\ LET tIDX == startJ \div Hop
           to == {CellOf(epochI, c, tIDX, f) : c \in 0..2, f \in 0..31}
           what(x) == CHOOSE q \in (0..2) \X (0..31) : CellOf(epochI, q[1], tIDX, q[2]) = x
           inside == /\ \A c \in 1..3 : SubvecInside(epochI, startJ, n_elem[c])
                     /\ to \subseteq Cells(epochCount)
       IN  \/ /\ ~inside
              /\ featpc' = "std::logic_error"
              /\ UNCHANGED <<startJ, payload, stores, frames>>
           \/ /\ inside \/ to \subseteq Cells(epochCount)
              /\ frames' = Append(frames, [i |-> epochI, t |-> tIDX, j |-> startJ])
              /\ payload' = [x \in to |-> <<epochI, what(x)[1], tIDX, what(x)[2]>>] @@ payload
              /\ stores' = [x \in to |-> stores[x] + 1] @@ stores
              /\ startJ' = startJ + Hop
              /\ UNCHANGED featpc
    /\ UNCHANGED <<convert, dispatch, n_elem, epochCount, epochI>>

\* lines 600-601: the inner loop is over, ++i
NextEpoch ==
    /\ featpc = "loop"
    /\ epochI < epochCount
    /\ ~InnerLoopGoesOn(startJ)
    /\ epochI' = epochI + 1
    /\ startJ' = 0
    /\ UNCHANGED <<convert, dispatch, n_elem, epochCount, payload, stores, frames, featpc>>

\* line 600: i < epochs fails, the loop is left
EndExtract ==
    /\ featpc = "loop"
    /\ epochI >= epochCount
    /\ featpc' = "done"
    /\ UNCHANGED <<convert, dispatch, n_elem, epochCount, epochI, startJ, payload, stores,
                   frames>>

NextFeatures ==
    \/ ExtractFrame
    \/ NextEpoch
    \/ EndExtract

SpecFeatures == InitFeatures /\ [][NextFeatures]_vars

(***************************************************************************)
(* Properties                                                              *)
(***************************************************************************)
LastMsg == IF streamMsg = <<>> THEN <<>> ELSE streamMsg[Len(streamMsg)]

Returned == pc = "returned"
Succeeded == Returned /\ ret = "true"
FailedWith(msg) == Returned /\ ret = "false" /\ LastMsg = msg

\* the bytes written before the payload: signature, five one-byte fields,
\* n_epochs, two flags, digest
HeaderLen == 3 + 1 + 1 + 1 + 1 + 2 + 1 + 1 + 20

\* the bytes of the destination file
cfs == disk[CfsName(filename)].bytes

\* s begins with p
Begins(s, p) == Len(s) >= Len(p) /\ \A i \in 1..Len(p) : s[i] = p[i]

\* two labels that differ at most in letter case
SameButCase(a, b) == strlwr(a) = strlwr(b)

\* the signals whose label is the requested label of role r but for case
Matches(r) ==
    {i \in 1..Len(edf.signalparam) : SameButCase(edf.signalparam[i].label, channelLabels[r])}

LabelError(r) == FailedWith(<<"Error: label not found!", RoleName(r)>>)
UnitError == FailedWith(<<"ERROR: Invalid measurement unit.">>)
RateError == FailedWith(<<"Error: C3 and C4 sampling rates must be same.">>)
ConvertedError == FailedWith(<<"ERROR: File already converted.">>)

\* the label resolution of the job is over
LabelsDone == pc \notin {"showHeader", "exit", "convertFile", "open", "labels"} /\ hdl # "none"
\* the checks of units and rates are over
ParamsDone == LabelsDone /\ pc # "params" /\ \A r \in Roles : nCh[r] # 0

\* C1: the file of a successful job is the 31 header bytes of the layout,
\* in order, followed by the compressed payload
C1_HeaderLayout ==
    Succeeded =>
        /\ Len(cfs) >= HeaderLen
        /\ SubSeq(cfs, 1, 7) = <<67, 70, 83, 1, 32, 32, 3>>
        /\ SubSeq(cfs, 8, 9) = LowBytes(nEpochs, 2)
        /\ SubSeq(cfs, 10, 11) = <<1, 1>>
        /\ SubSeq(cfs, 12, 31) = SHAdigest
        /\ SubSeq(cfs, HeaderLen + 1, Len(cfs)) = ostream

\* C2: the n_epochs value of the header is floor(L / 3000), L the length of
\* the resampled EEG, whatever L is
C2_EpochCount ==
    pc \in {"compress", "fopen", "write"} \/ Succeeded =>
        nEpochs = lens[1] \div EpochLen

\* C3: the image that is hashed and compressed has n_epochs * 3 * 32 * 32 * 4
\* bytes, n_epochs the value of the header
C3_PayloadLength ==
    pc \in {"compress", "fopen", "write"} \/ Succeeded =>
        sourceLen = nEpochs * 3 * 32 * 32 * 4

\* C4: in the file of a successful job the bytes after the header inflate to
\* the image that was compressed, and its SHA-1 is the digest at offset 11
C4_DigestOfPayload ==
    Succeeded =>
        /\ Len(cfs) >= HeaderLen
        /\ Inflate(SubSeq(cfs, HeaderLen + 1, Len(cfs))) = sourceLen
        /\ SubSeq(cfs, 12, 31) = SHA1(Inflate(SubSeq(cfs, HeaderLen + 1, Len(cfs))))

\* C5: a role whose requested label is that of a signal but for letter case
\* is resolved, to a signal with such a label
C5_CaseInsensitive ==
    \A r \in Roles :
        Matches(r) # {} =>
            /\ ~LabelError(r)
            /\ LabelsDone /\ nCh[r] # 0 => nCh[r] \in Matches(r)

\* C6: the job fails with label-not-found exactly when a role has no signal
\* of its label, the error names the first such role, and a role is bound to
\* the first signal of its label
C6_LabelNotFound ==
    LabelsDone =>
        LET unmatched == {r \in Roles : Matches(r) = {}}
        IN  /\ (\E r \in Roles : LabelError(r)) <=> unmatched # {}
            /\ \A r \in Roles : LabelError(r) => \A q \in unmatched : r <= q
            /\ \A r \in Roles :
                  nCh[r] # 0 => nCh[r] \in Matches(r) /\ \A i \in Matches(r) : nCh[r] <= i

\* the multiplier the unit stands for, in thousandths; negative for none
UnitFactor(u) ==
    CASE Begins(u, <<"n", "V">>) -> 1
      [] Begins(u, <<"u", "V">>) -> 1000
      [] Begins(u, <<"m", "V">>) -> 1000000
      [] Begins(u, <<"V">>) -> 1000000000
      [] OTHER -> -1000

UnitOf(r) == edf.signalparam[nCh[r]].physdimension

\* C7: the multiplier of each selected channel is 0.001, 1, 1000, 1000000 for
\* a unit beginning with nV, uV, mV, V and negative for any other, and the job
\* fails with the invalid-unit error exactly when a selected channel has such
\* another unit
C7_Units ==
    /\ UnitError => ParamsDone
    /\ ParamsDone =>
        /\ \A r \in Roles : mult[r] = UnitFactor(UnitOf(r))
        /\ UnitError <=> \E r \in Roles : UnitFactor(UnitOf(r)) < 0

C7_Witness ==
    /\ UnitError
    /\ UnitOf(C3) = <<"n", "V">>
    /\ UnitOf(EL) = <<"m", "A">>

\* the integer part of the nominal sample rate, samples per record over the
\* record duration, of the channel of role r
RateOf(r) == edf.signalparam[nCh[r]].smp_in_datarecord \div edf.datarecord_duration

\* C8: with the labels resolved and the units supported the job fails with
\* the rate-mismatch error exactly when the integer parts of the rates of C3
\* and C4 differ, and then no sample was read and the file system is as it was
C8_RateMismatch ==
    /\ RateError => ParamsDone /\ reads = <<>> /\ disk = disk0
    /\ ParamsDone /\ (\A r \in Roles : UnitFactor(UnitOf(r)) > 0) =>
        (RateError <=> RateOf(C3) # RateOf(C4))

\* C9: with overwrite disabled and the destination present at the start the
\* job opens no EDF, reads nothing, leaves the file system as it was and can
\* only return failure
C9_AlreadyConverted ==
    ~overwrite /\ exists(disk0, CfsName(filename)) =>
        /\ pc \in {"showHeader", "exit", "convertFile", "returned"}
        /\ hdl = "none"
        /\ reads = <<>>
        /\ disk = disk0
        /\ Returned => ConvertedError

C9_Witness ==
    /\ ConvertedError
    /\ ~overwrite
    /\ disk[baseName] = OldFile

\* C10: a job that returned failure, or left by an exception, left the file
\* system as it was when the job started
C10_FailureLeavesDestination ==
    Returned /\ ret # "true" => disk = disk0

C10_Witness ==
    /\ FailedWith(<<"ERROR: Not enough memory for compression!">>)
    /\ disk[baseName] = OldFile

\* the file a little-endian host writes for the header fields, the digest and
\* the compressed payload of the job when every write is complete
WholeFile ==
    <<67, 70, 83, 1, 32, 32, 3>> \o LowBytes(nEpochs, 2) \o <<1, 1>> \o SHAdigest
        \o ostream

\* C11: the destination is at every moment absent, the file that was there
\* when the job started, or the whole new file; and a job of which a write
\* came up short does not return success
C11_NoPartialOutput ==
    /\ \/ disk[CfsName(filename)] = disk0[CfsName(filename)]
       \/ disk[CfsName(filename)] = Absent
       \/ disk[CfsName(filename)] = [exists |-> TRUE, bytes |-> WholeFile]
    /\ Returned /\ faults > 0 => ret # "true"

\* C19: with every write complete, the file of a successful job holds the
\* same bytes on a big-endian host as on a little-endian host: n_epochs low
\* byte first, the digest and the payload in full and in order
C19_SameBytesOnBothHosts ==
    Succeeded /\ faults = 0 => cfs = WholeFile

\* the position of the last element of s that is c, 0 for none
RECURSIVE LastIndexOf(_, _, _)
LastIndexOf(s, c, i) ==
    IF i = 0 THEN 0 ELSE IF s[i] = c THEN i ELSE LastIndexOf(s, c, i - 1)

\* the directory part of a path, with its separator
DirOf(path) == SubSeq(path, 1, LastIndexOf(path, "/", Len(path)))

\* the file name of a path
NameOf(path) == SubSeq(path, LastIndexOf(path, "/", Len(path)) + 1, Len(path))

\* a file name without its extension
StemOf(name) ==
    IF LastIndexOf(name, ".", Len(name)) = 0
    THEN name
    ELSE SubSeq(name, 1, LastIndexOf(name, ".", Len(name)) - 1)

\* C20: the destination path is the directory of the input, the stem of the
\* input file name and .cfs
C20_OutputPath ==
    pc \notin {"showHeader", "exit", "convertFile"} =>
        baseName = DirOf(filename) \o StemOf(NameOf(filename)) \o <<".", "c", "f", "s">>

\* the files the dispatcher has reported: a console line, a log entry or an
\* entry of successCounter
Reported ==
    {cout[n][2] : n \in 1..Len(cout)} \cup {lfile[n] : n \in 1..Len(lfile)}
        \cup {recorded[n] : n \in 1..Len(recorded)}

\* the elements of a sequence of numbers increase
Increasing(q) == \A m, n \in 1..Len(q) : m < n => q[m] < q[n]

\* the console lines, the log entries and the records are in input-list order
InListOrder ==
    /\ Increasing([n \in 1..Len(cout) |-> cout[n][2]])
    /\ Increasing(lfile)
    /\ Increasing(recorded)

\* the files of the batch of file k
BatchOf(k) ==
    {m \in Files : (m - 1) \div concurentThreadsSupported = (k - 1) \div concurentThreadsSupported}

\* C12: no error of a job ends the process: a job ends by returning true or
\* false, and neither exit nor std::terminate is reached
C12_NoJobErrorEndsProcess ==
    /\ ~Ended
    /\ \A k \in Files : result[k] \in {"none", "true", "false"}

\* C13: a job is started only when the jobs of all files before its batch
\* have finished, and at most concurentThreadsSupported jobs run at a time
C13_BatchBarrier ==
    mainpc # "start" =>
        /\ \A k \in Files :
              jobpc[k] # "none" =>
                  \A m \in Files :
                      m <= concurentThreadsSupported * ((k - 1) \div concurentThreadsSupported)
                          => jobpc[m] = "done"
        /\ Cardinality({k \in Files : Running(k)}) <= concurentThreadsSupported

C13_Witness ==
    /\ concurentThreadsSupported = 2
    /\ Len(filelist) = 3
    /\ Running(3)
    /\ recorded = <<1, 2>>
    /\ result[1] = "false"

\* C14: the files are handed to async once each and in input-list order, a
\* job runs only for a file that was handed over, every outcome is recorded
\* at the index of its file, and the summary counts every file once
C14_EachFileOnce ==
    /\ \A n \in 1..Len(admitted) : admitted[n] = n
    /\ \A k \in Files : jobpc[k] # "none" => k <= Len(admitted)
    /\ \A n \in 1..Len(recorded) :
          /\ recorded[n] = n
          /\ successCounter[n] = IF result[n] = "true" THEN 1 ELSE 0
    /\ \A k \in Files : k > Len(recorded) /\ mainpc # "start" => successCounter[k] = 0
    /\ mainpc = "done" =>
          /\ Len(admitted) = Len(filelist)
          /\ Len(recorded) = Len(filelist)
          /\ summary[1].converted = Cardinality({k \in Files : result[k] = "true"})
          /\ summary[1].converted + summary[1].failed = Len(filelist)

C14_Witness ==
    /\ mainpc = "done"
    /\ concurentThreadsSupported = 2
    /\ result = <<"false", "true", "true">>

\* C15: the dispatcher comes to record an outcome for every file and to
\* print its summary, whichever jobs fail
C15_AllFilesRecorded ==
    <>(mainpc = "done" /\ Len(recorded) = Len(filelist))

\* C16, as stated: a file is reported only when every job of its batch has
\* finished, and the reports are in input-list order
C16_AfterBatchJoins ==
    /\ \A k \in Reported : \A m \in BatchOf(k) : jobpc[m] = "done"
    /\ InListOrder

\* C16, amended: a file is reported only when its own job and the jobs of
\* all files before it have finished, and the reports are in input-list order
C16_AfterOwnJob ==
    /\ \A k \in Reported : \A m \in Files : m <= k => jobpc[m] = "done"
    /\ InListOrder

C16_Witness ==
    /\ mainpc = "wait"
    /\ Len(filelist) >= 2
    /\ 1 \in Reported
    /\ cout # <<>>
    /\ Running(2)
    /\ 2 \in BatchOf(1)

\* C17: no two jobs that run at the same time use one object that one of
\* them writes
C17_NoSharedMutableState ==
    \A a, b \in Files :
        a # b /\ Running(a) /\ Running(b) =>
            ~(plAccess[a] = "write" /\ plAccess[b] # "none")

\* C18, as stated: the degree of parallelism is max(2, detected)
C18_AtLeastTwo ==
    mainpc # "start" =>
        concurentThreadsSupported = IF detected < 2 THEN 2 ELSE detected

\* C18, amended: the degree of parallelism is the detected value, and 2 when
\* nothing was detected; it is at least 1 and bounds every batch
C18_DetectedOrTwo ==
    mainpc # "start" =>
        /\ detected = 0 => concurentThreadsSupported = 2
        /\ detected > 0 => concurentThreadsSupported = detected
        /\ concurentThreadsSupported >= 1
        /\ Len(workers) <= concurentThreadsSupported

C18_Witness ==
    /\ detected = 1
    /\ concurentThreadsSupported = 1
    /\ Len(filelist) = 2
    /\ mainpc = "done"

\* the filtered signals were handed on to the feature extraction
Processed == resampled # <<>>

\* the samples in a record of the channel that decides for eeg, eogl, eogr
SmpOf(c) == edf.signalparam[nCh[RateRole(c)]].smp_in_datarecord

\* C21, as stated: a signal is resampled exactly when the rate of its channel
\* is not 100 Hz, and a signal that is not resampled is the filter output,
\* which has totSamples samples
C21_ResampledUnless100Hz ==
    Processed =>
        \A c \in 1..3 :
            /\ resampled[c] <=> SmpOf(c) # 100 * edf.datarecord_duration
            /\ ~resampled[c] => lens[c] = totSamples

\* C21, amended: a signal is resampled exactly when the integer part of the
\* rate computed for its channel is not 100
C21_ResampledByIntegerRate ==
    Processed =>
        \A c \in 1..3 :
            /\ resampled[c] <=> IntPart(SampleRate(edf, nCh[RateRole(c)])) # 100
            /\ ~resampled[c] => lens[c] = totSamples

C21_Witness ==
    /\ Processed
    /\ SmpOf(1) = 201
    /\ edf.datarecord_duration = 2
    /\ ~resampled[1]
    /\ resampled[3]

\* C24: the coefficients of the right EOG are those designed for the rate of
\* the right EOG channel, 0.3 Hz to 12 Hz
C24_OwnRateFilter ==
    Processed =>
        filters[3] = firBandPass(50, Cutoff(3, SampleRate(edf, nCh[ER])),
                                 Cutoff(120, SampleRate(edf, nCh[ER])))

\* C25: every frame of the first and of the last epoch, and so of every
\* epoch, ends inside each of the three signals
C25_FramesInsideSignals ==
    Processed =>
        \A c \in 1..3 : \A i \in {0, epochs - 1} \cap 0..(epochs - 1) : \A j \in FrameStarts :
            i * 3000 + j + 127 < lens[c]

\* C28: a handle that was never opened is never closed; an opened handle is
\* closed once when convertFile returns, and before the filtering, the hash,
\* the compression and every write to the destination
C28_ClosedOnce ==
    /\ closes <= 1
    /\ hdl = "none" => closes = 0
    /\ Returned /\ ret \in {"true", "false"} /\ hdl # "none" => hdl = "closed" /\ closes = 1
    /\ pc \in {"filter", "hash", "compress", "fopen", "write"} => hdl = "closed" /\ closes = 1
    /\ disk # disk0 => hdl = "closed" /\ closes = 1

C28_Witness ==
    /\ Succeeded
    /\ closes = 1
    /\ Len(reads) = 4

\* C29: the filtering is reached only when each of the four reads gave the
\* totSamples samples asked for
C29_FullReads ==
    pc \in {"close", "filter", "hash", "compress", "fopen", "write"} =>
        /\ Len(reads) = 4
        /\ \A n \in 1..4 : reads[n] = totSamples

\* C30: showHeader goes on only with four numbers in 1..N, N the number of
\* signals of the file
C30_ChannelNumbers ==
    entered # <<>> /\ pc # "exit" =>
        \A r \in Roles : entered[r] \in 1..Len(edf.signalparam)

\* C26: no two jobs of one batch write the same destination, and with
\* overwrite off a destination is written by one job of the run at most
C26_OneWriterPerDestination ==
    mainpc # "start" =>
        /\ \A a, b \in Files :
              a # b /\ b \in BatchOf(a) /\ filelist[a] = filelist[b] =>
                  ~(result[a] = "true" /\ result[b] = "true")
        /\ ~overwrite => \A k \in Files : Cardinality(Creators(filelist[k])) <= 1

\* C27: the plan of the global FFTW object is made once: at most one job of
\* the run finds pl_fft null and makes a plan
C27_PlanCreatedOnce ==
    Cardinality({k \in Files : jobpc[k] = "plan" \/ plAccess[k] = "write"}) <= 1

\* C22: every frame is bin t of its epoch with start t * 90 and end inside the
\* epoch, no bin of an epoch is computed twice, and after the loop every
\* epoch has its 32 frames, the bins 0..31
C22_FramesOfEpoch ==
    /\ \A n \in 1..Len(frames) :
          /\ frames[n].t \in 0..31
          /\ frames[n].j = frames[n].t * 90
          /\ frames[n].j + 128 <= 3000
          /\ \A m \in 1..Len(frames) :
                m # n => <<frames[m].i, frames[m].t>> # <<frames[n].i, frames[n].t>>
    /\ featpc = "done" =>
          \A e \in 0..(epochCount - 1) :
              Cardinality({n \in 1..Len(frames) : frames[n].i = e}) = 32

C22_Witness ==
    /\ featpc = "done"
    /\ epochCount = 2
    /\ Len(frames) = 64

\* C23: the magnitude of epoch e, channel c, bin t, frequency f is stored in
\* cell ((e * 3 + c) * 32 + t) * 32 + f, no cell is assigned twice, and after
\* the loop every cell of the payload was assigned once
C23_PayloadCells ==
    /\ \A x \in DOMAIN payload :
          LET p == payload[x]
          IN  IF stores[x] = 0
              THEN p = <<>>
              ELSE /\ stores[x] = 1
                   /\ Len(p) = 4
                   /\ x = ((p[1] * 3 + p[2]) * 32 + p[3]) * 32 + p[4]
    /\ featpc = "done" => \A x \in DOMAIN payload : stores[x] = 1

C23_Witness ==
    /\ featpc = "done"
    /\ epochCount = 2
    /\ payload[6143] = <<1, 2, 31, 31>>

====
